---- MODULE Spec2Model ----
(***************************************************************************)
(* Model of xled: the authentication session (xled/auth.py), the realtime  *)
(* datagram token (xled/control.py) and the discovery agent                *)
(* (xled/discover.py, xled/udp_client.py).                                 *)
(***************************************************************************)
EXTENDS Integers, Sequences, FiniteSets, TLC

VARIABLES
    client,      \* ClientApplication fields of the session
    hw_address,  \* BaseUrlChallengeResponseAuthSession.hw_address
    auto_refresh_token,
    th,          \* per caller: position inside request() and its locals
    callers,     \* the callers that use the session
    nLogin,      \* login requests sent so far; login number n is answered with token n
    calls,       \* request() calls started so far
    rt,          \* last call of set_rt_frame_socket()
    now,         \* time.time(), in seconds
    peers,       \* InterfaceAgent.peers, in insertion order
    pipe,        \* the events the agent has written to the pipe, oldest first
    sockq,       \* the agent's own pings that wait in its UDP socket
    agentPc,     \* where the agent's loop thread is
    receive_timeout,  \* UDPClient.receive_timeout
    broadcast,   \* UDPClient.broadcast: no destination_host was given
    arrived,     \* datagrams from other hosts that the agent has read so far
    pings,       \* pings sent so far
    life,        \* the agent's callbacks, socket handler, socket and loop
    destination_host,  \* UDPClient.destination_host
    pinged,      \* where the last ping was sent to
    seen,        \* the datagram that handle_beacon handled last
    owner,       \* the thread that owns the DiscoveryInterface
    dec,         \* a call of decode_discovery_response: its argument and result
    rtf,         \* a call of set_rt_frame_socket: its arguments, the datagrams sent
    xr           \* a call of xor_strings: its arguments and result

authVars == <<client, hw_address, auto_refresh_token, th, callers, nLogin, calls, rt>>

discVars == <<peers, pipe, sockq, agentPc, receive_timeout, broadcast, arrived, pings,
              life, destination_host, pinged, seen, owner, dec, rtf, xr>>

vars == <<client, hw_address, auto_refresh_token, th, callers, nLogin, calls, rt, now,
          peers, pipe, sockq, agentPc, receive_timeout, broadcast, arrived, pings,
          life, destination_host, pinged, seen, owner, dec, rtf, xr>>

----------------------------------------------------------------------------
(* Bounds *)

MaxTime == 4
MaxCalls == 2
MaxLogins == 3
MaxChallenge == 2
MaxDiscTime == 6
MaxDatagrams == 2
MaxPings == 1
MaxStops == 2

\* longest datagram handed to decode_discovery_response
MaxLen == 8

\* longest message and longest key handed to xor_strings
MaxMsg == 3

----------------------------------------------------------------------------
(* Python values *)

PyNone == -1
PyFalse == 0

\* bool(x) of None, False, or a non-empty token / address / timestamp
Truthy(x) == x > 0

HW == {1, 2}
Challenges == 1 .. MaxChallenge
CallerIds == {1, 2}

\* authentication_token_expires_in of a login response; PyNone: the key is absent
ExpiresIn == {PyNone, 1}

\* the bytes of a request body
BODY == <<7, 9>>

----------------------------------------------------------------------------
(* xled.security *)

\* The SHA-1 hex digest of rc4(challenge, derive_key(key, mac)): a value that
\* is determined by, and determines, the pair (challenge, hardware address).
make_challenge_response(challenge, mac) == challenge * 10 + mac

----------------------------------------------------------------------------
(* ClientApplication *)

ClientInit ==
    [ authentication_token |-> PyNone,
      expires_at |-> PyNone,
      _challenge |-> PyNone,
      _authentication_token |-> PyNone,
      _challenge_response |-> PyNone,
      _expires_in |-> PyNone ]

token_expired(cl, t) == Truthy(cl.expires_at) /\ cl.expires_at < t

prepare_request_challenge(cl, challenge) ==
    [cl EXCEPT !._challenge = challenge,
               !._authentication_token = PyNone,
               !._challenge_response = PyNone,
               !._expires_in = PyNone]

\* response: the JSON of a login response with code 1000
populate_token_attributes(cl, response, t) ==
    LET c1 == [cl EXCEPT !._authentication_token = response.authentication_token,
                         !._challenge_response = response.challenge_response]
    IN  IF response.expires_in # PyNone
        THEN [c1 EXCEPT !._expires_in = response.expires_in,
                        !.expires_at = t + response.expires_in]
        ELSE c1

\* TRUE: valid or not verifiable; FALSE: raises ValidationError
challenge_response_validMutant(cl, hw) == TRUE

challenge_response_valid(cl, hw) ==
    IF ~Truthy(hw) THEN TRUE
    ELSE make_challenge_response(cl._challenge, hw) = cl._challenge_response

\* the two asserts of prepare_request_verify
prepare_request_verify_ok(cl) ==
    Truthy(cl._authentication_token) /\ Truthy(cl._challenge_response)

\* parse_response_verify that makes the token active whatever the code
parse_response_verifyMutant(cl, code) ==
    [cl EXCEPT !._challenge_response = PyNone,
               !.authentication_token = cl._authentication_token,
               !._authentication_token = PyNone]

\* parse_response_verify for HTTP 200; code: the application status code
parse_response_verify(cl, code) ==
    IF code # 1000
    THEN cl   \* "return AuthenticationError()": nothing is raised, nothing changes
    ELSE [cl EXCEPT !._challenge_response = PyNone,
                    !.authentication_token = cl._authentication_token,
                    !._authentication_token = PyNone]

----------------------------------------------------------------------------
(* BaseUrlChallengeResponseAuthSession *)

RequestAttemptsMutant == 2 + 1

RequestAttempts == 2

Fetch(site) == [k |-> "fetch", site |-> site, hdr |-> PyNone, exc |-> ""]
Send(hdr) == [k |-> "send", site |-> "-", hdr |-> hdr, exc |-> ""]
Raise(exc) == [k |-> "raise", site |-> "-", hdr |-> PyNone, exc |-> exc]

\* the loop "for attempt in range(2)" of add_authorization, from iteration i
AddTokenLoop(cl, hdr, t, auto, i) ==
    IF i = 2 THEN Raise("AuthenticationError")
    ELSE IF token_expired(cl, t)
         THEN IF ~auto THEN Raise("TokenExpiredError")
              ELSE Fetch(IF i = 0 THEN "B0" ELSE "B1")
         ELSE Send(cl.authentication_token)

\* add_authorization after "if not self.authorized: self.fetch_token()"
AfterFetchA(cl, hdr, t, auto) ==
    IF Truthy(cl.authentication_token)
    THEN AddTokenLoop(cl, hdr, t, auto, 0)
    ELSE Send(hdr)

\* add_authorization after the fetch_token() of the except branch, iteration i
AfterFetchB(cl, hdr, t, auto, i) ==
    IF ~Truthy(cl.authentication_token) THEN Raise("AuthenticationError")
    ELSE AddTokenLoop(cl, hdr, t, auto, i + 1)

add_authorizationMutant(cl, hdr, t, auto) == Fetch("A")

add_authorization(cl, hdr, t, auto) ==
    IF ~Truthy(cl.authentication_token) THEN Fetch("A")
    ELSE AfterFetchA(cl, hdr, t, auto)

\* top of the loop of request()
BeginAttempt(t0, cl, t, auto) ==
    IF t0.withhold THEN Send(t0.headers)
    ELSE add_authorization(cl, t0.headers, t, auto)

AfterFetch(t0, cl, t, auto) ==
    CASE t0.site = "A" -> AfterFetchA(cl, t0.headers, t, auto)
      [] t0.site = "B0" -> AfterFetchB(cl, t0.headers, t, auto, 0)
      [] OTHER -> AfterFetchB(cl, t0.headers, t, auto, 1)

\* what a send of the request body puts on the wire: a file-like body is read
\* from its current position to its end
BodySent(t0) == IF t0.stream THEN SubSeq(BODY, t0.pos + 1, Len(BODY)) ELSE BODY

ThreadInit ==
    [ pc |-> "idle", attempt |-> 0, site |-> "-", withhold |-> FALSE,
      headers |-> PyNone, stream |-> FALSE, pos |-> 0,
      chal |-> PyNone, loginNo |-> 0,
      sent |-> <<>>, resp |-> <<>>, result |-> "",
      logins |-> 0, verifies |-> 0,
      tok0 |-> PyNone, exp0 |-> PyNone, valid0 |-> FALSE,
      hsTok |-> PyNone, hsVerifies |-> 0, mismatch |-> FALSE, cause |-> "" ]

\* super().request(method, url, headers=headers, **kwargs)
SendRequest(t0, cl, hdr, t) ==
    [t0 EXCEPT !.pc = "send",
               !.headers = hdr,
               !.pos = IF t0.stream THEN Len(BODY) ELSE @,
               !.sent = Append(@, [ hdr |-> hdr,
                                    body |-> BodySent(t0),
                                    logins |-> t0.logins,
                                    active |-> cl.authentication_token,
                                    expired |-> token_expired(cl, t) ])]

\* The session goes on from outcome out of the code that ran up to the next
\* network call: fetch_token() up to its login request, the request itself, or
\* an exception that ends request().
Proceed(c, t0, cl, out) ==
    CASE out.k = "fetch" ->
            /\ nLogin < MaxLogins
            /\ \E challenge \in Challenges :
                 /\ client' = prepare_request_challenge(cl, challenge)
                 /\ th' = [th EXCEPT ![c] =
                             [t0 EXCEPT !.pc = "login", !.site = out.site,
                                        !.chal = challenge,
                                        !.loginNo = nLogin + 1,
                                        !.logins = @ + 1,
                                        !.hsTok = cl.authentication_token,
                                        !.hsVerifies = t0.verifies,
                                        !.mismatch = FALSE,
                                        !.cause = ""]]
            /\ nLogin' = nLogin + 1
      [] out.k = "send" ->
            /\ client' = cl
            /\ th' = [th EXCEPT ![c] = SendRequest(t0, cl, out.hdr, now)]
            /\ UNCHANGED nLogin
      [] OTHER ->
            /\ client' = cl
            /\ th' = [th EXCEPT ![c] = [t0 EXCEPT !.pc = "done", !.result = out.exc]]
            /\ UNCHANGED nLogin

\* request(method, url, headers=None, withhold_token, data=...) is called
Request(c) ==
    /\ c \in callers
    /\ th[c].pc = "idle"
    /\ calls < MaxCalls
    /\ calls' = calls + 1
    /\ \E withhold \in BOOLEAN, stream \in BOOLEAN :
         LET t0 == [ThreadInit EXCEPT
                       !.withhold = withhold, !.stream = stream,
                       !.tok0 = client.authentication_token,
                       !.exp0 = client.expires_at,
                       !.valid0 = /\ client.authentication_token > 0
                                  /\ ~(client.expires_at > 0 /\ client.expires_at < now)]
         IN  Proceed(c, t0, client, BeginAttempt(t0, client, now, auto_refresh_token))
    /\ UNCHANGED <<hw_address, auto_refresh_token, callers, rt, now>>
    /\ UNCHANGED discVars

\* fetch_token(): the login response arrives; parse_response_challenge,
\* challenge_response_valid, prepare_request_verify, and the verify request
LoginResponse(c) ==
    /\ th[c].pc = "login"
    /\ \E http \in {200, 500}, code \in {1000, 1001}, mac \in HW, e \in ExpiresIn :
         LET t0 == th[c]
             response == [ authentication_token |-> t0.loginNo,
                           challenge_response |-> make_challenge_response(t0.chal, mac),
                           expires_in |-> e ]
             cl == populate_token_attributes(client, response, now)
             fail(exc, cause) ==
                 /\ client' = client
                 /\ th' = [th EXCEPT ![c] = [t0 EXCEPT !.pc = "done", !.result = exc,
                                                       !.cause = cause]]
         IN  CASE http # 200 -> fail("HTTPError", "login_http")
               [] http = 200 /\ code # 1000 -> fail("AuthenticationError", "login_code")
               [] OTHER ->
                    LET mm == /\ hw_address > 0
                              /\ response.challenge_response
                                    # make_challenge_response(t0.chal, hw_address)
                        t1 == [t0 EXCEPT !.mismatch = mm]
                    IN  IF ~challenge_response_valid(cl, hw_address)
                        THEN /\ client' = cl
                             /\ th' = [th EXCEPT ![c] =
                                         [t1 EXCEPT !.pc = "done",
                                                    !.result = "ValidationError",
                                                    !.cause = "validation"]]
                        ELSE IF ~prepare_request_verify_ok(cl)
                        THEN /\ client' = cl
                             /\ th' = [th EXCEPT ![c] =
                                         [t1 EXCEPT !.pc = "done",
                                                    !.result = "AssertionError"]]
                        ELSE /\ client' = cl
                             /\ th' = [th EXCEPT ![c] =
                                         [t1 EXCEPT !.pc = "verify",
                                                    !.verifies = @ + 1]]
    /\ UNCHANGED <<hw_address, auto_refresh_token, callers, nLogin, calls, rt, now>>
    /\ UNCHANGED discVars

\* fetch_token(): the verify response arrives; parse_response_verify, then the
\* rest of add_authorization
VerifyResponse(c) ==
    /\ th[c].pc = "verify"
    /\ \E http \in {200, 500}, code \in {1000, 1001} :
         LET t0 == th[c] IN
         IF http # 200
         THEN /\ client' = client
              /\ th' = [th EXCEPT ![c] = [t0 EXCEPT !.pc = "done", !.result = "HTTPError",
                                                    !.cause = "verify_http"]]
              /\ UNCHANGED nLogin
         ELSE LET cl == parse_response_verify(client, code)
                  t1 == [t0 EXCEPT !.cause = IF code # 1000 THEN "verify_code" ELSE ""]
              IN  Proceed(c, t1, cl, AfterFetch(t1, cl, now, auto_refresh_token))
    /\ UNCHANGED <<hw_address, auto_refresh_token, callers, calls, rt, now>>
    /\ UNCHANGED discVars

\* the response to the request arrives: the rest of the loop body of request()
Response(c) ==
    /\ th[c].pc = "send"
    /\ \E status \in {200, 401} :
         LET t0 == [th[c] EXCEPT !.resp = Append(@, status)] IN
         IF status = 401
         THEN LET cl == [client EXCEPT !.authentication_token = PyFalse]
                  t1 == [t0 EXCEPT !.attempt = @ + 1]
              IN  IF t1.attempt < RequestAttempts
                  THEN Proceed(c, t1, cl, BeginAttempt(t1, cl, now, auto_refresh_token))
                  ELSE /\ client' = cl
                       /\ th' = [th EXCEPT ![c] = [t1 EXCEPT !.pc = "done", !.result = "401"]]
                       /\ UNCHANGED nLogin
         ELSE /\ client' = client
              /\ th' = [th EXCEPT ![c] = [t0 EXCEPT !.pc = "done", !.result = "200"]]
              /\ UNCHANGED nLogin
    /\ UNCHANGED <<hw_address, auto_refresh_token, callers, calls, rt, now>>
    /\ UNCHANGED discVars

\* request() has returned or raised; the caller may call again
Return(c) ==
    /\ th[c].pc = "done"
    /\ calls < MaxCalls
    /\ th' = [th EXCEPT ![c] = ThreadInit]
    /\ UNCHANGED <<client, hw_address, auto_refresh_token, callers, nLogin, calls, rt, now>>
    /\ UNCHANGED discVars

\* ControlInterface.set_rt_frame_socket(frame, version, leds_number), called
\* between two requests: base64.b64decode(self.session.access_token) raises
\* TypeError for None and False, otherwise the token goes into the datagram
set_rt_frame_socket ==
    /\ \A c \in callers : th[c].pc \in {"idle", "done"}
    /\ rt' = IF Truthy(client.authentication_token)
             THEN [ sent |-> TRUE, token |-> client.authentication_token,
                    expired |-> token_expired(client, now) ]
             ELSE [ sent |-> FALSE, token |-> PyNone, expired |-> FALSE ]
    /\ rt' # rt
    /\ UNCHANGED <<client, hw_address, auto_refresh_token, th, callers, nLogin, calls, now>>
    /\ UNCHANGED discVars

Tick ==
    /\ now < MaxTime
    /\ now' = now + 1
    /\ UNCHANGED authVars
    /\ UNCHANGED discVars

AuthInit(cs) ==
    /\ client = ClientInit
    /\ hw_address \in {PyNone} \cup HW
    /\ auto_refresh_token \in BOOLEAN
    /\ callers = cs
    /\ th = [c \in CallerIds |-> ThreadInit]
    /\ nLogin = 0
    /\ calls = 0
    /\ rt = [sent |-> FALSE, token |-> PyNone, expired |-> FALSE]

\* None or "" where a host is expected: not truthy
NoHost == <<>>

DEFAULT_BROADCAST == <<255, 255, 255, 255>>

\* the host a caller may ask to ping
Hosts == {<<192, 168, 1, 171>>}

\* UDPClient(port, destination_host, broadcast, receive_timeout)
UDPClient(host, bcast, timeout) ==
    [ destination_host |-> IF host # NoHost THEN host
                           ELSE IF bcast THEN DEFAULT_BROADCAST
                           ELSE NoHost,   \* ValueError
      broadcast |-> bcast,
      receive_timeout |-> timeout ]

\* InterfaceAgent(ctx, pipe, loop, destination_host, receive_timeout): self.udp
InterfaceAgent(loop, host, timeout) ==
    IF host # NoHost THEN UDPClient(host, FALSE, timeout)
    ELSE UDPClient(NoHost, TRUE, timeout)

\* DiscoveryInterface(destination_host, receive_timeout): the UDPClient of
\* InterfaceAgent(self.ctx, p1, destination_host, receive_timeout=receive_timeout),
\* whose third positional parameter is loop
DiscoveryInterface(host, timeout) == InterfaceAgent(host, NoHost, timeout)

\* the agent before start() has run: no periodic callback exists yet
LifeInit ==
    [ started |-> FALSE, ping |-> FALSE, reap |-> FALSE, handler |-> FALSE,
      closed |-> FALSE, queued |-> FALSE ]

\* the agent after start() has set up its callbacks and handler
LifeStarted ==
    [ started |-> TRUE, ping |-> TRUE, reap |-> TRUE, handler |-> TRUE,
      closed |-> FALSE, queued |-> FALSE ]

SeenInit == [data |-> <<>>, hw |-> PyNone]

\* None where a device id is expected
NoId == <<PyNone>>

\* pc "none": no thread uses a DiscoveryInterface; direct: the owner uses the
\* DiscoveryInterface itself, not through xdiscover
OwnerInit ==
    [ pc |-> "none", direct |-> FALSE, find_id |-> NoId, timeout |-> PyNone,
      host |-> NoHost, start |-> 0, rd |-> 0, yielded |-> <<>>, pending |-> "",
      result |-> "", stops |-> 0 ]

\* decode_discovery_response(data) is not called; done: it has returned or
\* raised
DecInit ==
    [ data |-> <<>>, done |-> FALSE, ok |-> FALSE, ip_address |-> <<>>,
      device_id |-> <<>> ]

\* set_rt_frame_socket(frame, version, leds_number) is not called; frame: the
\* number of bytes of the frame; pos: how many of them have been read;
\* result "": it has not ended, "None": it returned, otherwise the exception
\* it raised
RtInit ==
    [ pc |-> "none", frame |-> 0, version |-> 0, leds_number |-> PyNone,
      access_token |-> <<>>, pos |-> 0, data_packet |-> 0, i |-> 0,
      sent |-> <<>>, result |-> "" ]

\* xor_strings(message, key) is not called; calls: how many calls have ended,
\* the first with (message, key), the second with (ciphered, key); ciphered,
\* again: what they returned; result: how the last call ended, as in RtInit
XorInit ==
    [ message |-> <<>>, key |-> <<>>, calls |-> 0, ciphered |-> <<>>,
      again |-> <<>>, result |-> "" ]

\* the discovery agent is not used
NoInterface ==
    /\ peers = <<>>
    /\ pipe = <<>>
    /\ sockq = <<>>
    /\ agentPc = "stopped"
    /\ receive_timeout = PyNone
    /\ broadcast = TRUE
    /\ arrived = 0
    /\ pings = 0
    /\ life = LifeInit
    /\ destination_host = DEFAULT_BROADCAST
    /\ pinged = NoHost
    /\ seen = SeenInit
    /\ owner = OwnerInit

NoAgent == NoInterface /\ dec = DecInit /\ rtf = RtInit /\ xr = XorInit

InitAuth == AuthInit({1}) /\ NoAgent /\ now = 1

NextAuth ==
    \/ \E c \in CallerIds : Request(c)
    \/ \E c \in CallerIds : LoginResponse(c)
    \/ \E c \in CallerIds : VerifyResponse(c)
    \/ \E c \in CallerIds : Response(c)
    \/ \E c \in CallerIds : Return(c)
    \/ set_rt_frame_socket
    \/ Tick

SpecAuth == InitAuth /\ [][NextAuth]_vars

\* two callers use one session at the same time
InitAuthConc ==
    /\ AuthInit({1, 2})
    /\ NoAgent
    /\ now = 1
    /\ hw_address = PyNone
    /\ auto_refresh_token = TRUE

NextAuthConc ==
    \/ \E c \in CallerIds : Request(c)
    \/ \E c \in CallerIds : LoginResponse(c)
    \/ \E c \in CallerIds : VerifyResponse(c)
    \/ \E c \in CallerIds : Response(c)

SpecAuthConc == InitAuthConc /\ [][NextAuthConc]_vars

----------------------------------------------------------------------------
(* Claims about the authentication session *)

C2_EverySendCarriesActiveToken ==
    \A c \in callers :
        ~th[c].withhold =>
            \A i \in 1 .. Len(th[c].sent) :
                /\ Truthy(th[c].sent[i].hdr)
                /\ th[c].sent[i].hdr = th[c].sent[i].active

\* C3: whenever a handshake started by request() fails (login code, login
\* HTTP status, validation mismatch, verify rejected), the call ends with
\* AuthenticationError and the request is not sent.
C3_HandshakeFailureRaises ==
    \A c \in callers :
        th[c].cause # "" =>
            /\ th[c].pc = "done"
            /\ th[c].result = "AuthenticationError"

\* C4: with a hardware address set, a login answer whose challenge-response
\* differs from the one computed from the challenge of that handshake makes
\* fetch_token() raise ValidationError, no verify request is sent, and the
\* active token is the one from before the handshake.
C4_MismatchRaisesValidationError ==
    \A c \in callers :
        th[c].mismatch =>
            /\ th[c].pc = "done"
            /\ th[c].result = "ValidationError"
            /\ th[c].verifies = th[c].hsVerifies
            /\ client.authentication_token = th[c].hsTok

C4_Witness ==
    \E c \in callers :
        th[c].mismatch /\ Truthy(th[c].hsTok) /\ th[c].result = "ValidationError"

\* C5: at most one handshake is in progress on a session at any time, and the
\* challenge of a handshake in progress is not overwritten.
C5_OneHandshakeAtATime ==
    /\ Cardinality({c \in callers : th[c].pc \in {"login", "verify"}}) <= 1
    /\ \A c \in callers :
          th[c].pc \in {"login", "verify"} => client._challenge = th[c].chal

\* C6: a token put into a realtime datagram or into the token header of a
\* request is not expired, unless a refresh handshake was attempted first.
C6_NoExpiredTokenWithoutRefresh ==
    /\ rt.sent => ~rt.expired
    /\ \A c \in callers :
          \A i \in 1 .. Len(th[c].sent) :
              (~th[c].withhold /\ th[c].sent[i].logins = 0)
                  => ~(Truthy(th[c].sent[i].hdr) /\ th[c].sent[i].expired)

\* C7: the second send of a retried request has the same body bytes as the
\* first.
C7_RetrySendsSameBody ==
    \A c \in callers :
        Len(th[c].sent) = 2 => th[c].sent[2].body = th[c].sent[1].body

\* C8: a call of request() that starts with a token that has not expired and
\* gets no 401 sends no login and no verify request and leaves the token and
\* expires_at as they were.
C8_ValidTokenNoHandshake ==
    \A c \in callers :
        LET t == th[c] IN
        (t.valid0 /\ \A i \in 1 .. Len(t.resp) : t.resp[i] # 401) =>
            /\ t.logins = 0
            /\ t.verifies = 0
            /\ client.authentication_token = t.tok0
            /\ client.expires_at = t.exp0

C8_Witness ==
    \E c \in callers :
        /\ th[c].valid0 /\ th[c].pc = "done" /\ th[c].result = "200"
        /\ Len(th[c].sent) = 1 /\ th[c].sent[1].hdr = th[c].tok0
        /\ calls >= 2

----------------------------------------------------------------------------
(* xled.discover: wire format *)

PING_MESSAGE == <<1, 100, 105, 115, 99, 111, 118, 101, 114>>

PEER_EXPIRY == 5

\* a beacon of the device with IP address 192.168.1.last and the given id
Beacon(last, id) == <<last, 1, 168, 192, 79, 75>> \o id \o <<0>>

\* the beacons of two devices, each with its own id and address
Beacons == {Beacon(171, <<65>>), Beacon(172, <<66>>)}

\* too short; status is not "OK"; no zero at the end
Malformed == { <<171, 1, 168, 192, 79, 75>>,
               <<171, 1, 168, 192, 78, 79, 65, 0>>,
               <<171, 1, 168, 192, 79, 75, 65>> }

Payloads == Beacons \cup Malformed \cup {PING_MESSAGE}

\* hardware addresses of the devices on the network
DevHW == {1, 2}

\* decode_discovery_response without the check of the last byte
decode_discovery_responseMutant(data) ==
    IF Len(data) < 7
    THEN [ok |-> FALSE, ip_address |-> <<>>, device_id |-> <<>>]
    ELSE IF SubSeq(data, 5, 6) # <<79, 75>>
    THEN [ok |-> FALSE, ip_address |-> <<>>, device_id |-> <<>>]
    ELSE [ok |-> TRUE,
          ip_address |-> <<data[4], data[3], data[2], data[1]>>,
          device_id |-> SubSeq(data, 7, Len(data) - 1)]

\* decode_discovery_response that takes 7 bytes for too short
decode_discovery_responseMutant7(data) ==
    IF Len(data) < 8
    THEN [ok |-> FALSE, ip_address |-> <<>>, device_id |-> <<>>]
    ELSE IF SubSeq(data, 5, 6) # <<79, 75>>
    THEN [ok |-> FALSE, ip_address |-> <<>>, device_id |-> <<>>]
    ELSE IF data[Len(data)] # 0
    THEN [ok |-> FALSE, ip_address |-> <<>>, device_id |-> <<>>]
    ELSE [ok |-> TRUE,
          ip_address |-> <<data[4], data[3], data[2], data[1]>>,
          device_id |-> SubSeq(data, 7, Len(data) - 1)]

\* ok = FALSE: ValueError
decode_discovery_response(data) ==
    IF Len(data) < 7
    THEN [ok |-> FALSE, ip_address |-> <<>>, device_id |-> <<>>]
    ELSE IF SubSeq(data, 5, 6) # <<79, 75>>
    THEN [ok |-> FALSE, ip_address |-> <<>>, device_id |-> <<>>]
    ELSE IF data[Len(data)] # 0
    THEN [ok |-> FALSE, ip_address |-> <<>>, device_id |-> <<>>]
    ELSE [ok |-> TRUE,
          ip_address |-> <<data[4], data[3], data[2], data[1]>>,
          device_id |-> SubSeq(data, 7, Len(data) - 1)]

\* the bytes datagrams are made of: zero, "A", "K", "O"
WireBytes == {0, 65, 75, 79}

ByteSeqs == UNION { [1 .. n -> WireBytes] : n \in 0 .. MaxLen }

\* a caller hands a datagram to decode_discovery_response
InitDecode ==
    /\ AuthInit({})
    /\ hw_address = PyNone
    /\ auto_refresh_token = TRUE
    /\ NoInterface
    /\ now = 0
    /\ dec \in { [DecInit EXCEPT !.data = d] : d \in ByteSeqs }
    /\ rtf = RtInit
    /\ xr = XorInit

\* decode_discovery_response(data) returns (ok) or raises ValueError
decode ==
    /\ ~dec.done
    /\ LET r == decode_discovery_response(dec.data)
       IN  dec' = [ data |-> dec.data, done |-> TRUE, ok |-> r.ok,
                    ip_address |-> r.ip_address, device_id |-> r.device_id ]
    /\ UNCHANGED <<peers, pipe, sockq, agentPc, receive_timeout, broadcast, arrived,
                   pings, life, destination_host, pinged, seen, owner, rtf, xr, now>>
    /\ UNCHANGED authVars

SpecDecode == InitDecode /\ [][decode]_vars

----------------------------------------------------------------------------
(* xled.discover: InterfaceAgent *)

Event(ev, hw, a, b) == [ev |-> ev, hw |-> hw, a |-> a, b |-> b]

\* hw_address in self.peers
InPeers(ps, hw) == \E i \in 1 .. Len(ps) : ps[i].hw_address = hw

PeerIndex(ps, hw) == CHOOSE i \in 1 .. Len(ps) : ps[i].hw_address = hw

\* Peer(hw_address, device_id, ip_address), with is_alive()
Peer(hw, device_id, ip_address, t) ==
    [hw_address |-> hw, device_id |-> device_id, ip_address |-> ip_address,
     expires_at |-> t + PEER_EXPIRY]

\* the peer table and the events written, in order
process_new_peerMutant(ps, hw, device_id, ip_address, t) ==
    [ peers |-> ps,
      events |-> <<Event("JOINED", hw, device_id, ip_address)>> ]

process_new_peer(ps, hw, device_id, ip_address, t) ==
    [ peers |-> Append(ps, Peer(hw, device_id, ip_address, t)),
      events |-> <<Event("JOINED", hw, device_id, ip_address)>> ]

\* process_seen_peer that tells of a new address only when the id is the same
process_seen_peerMutant(ps, hw, device_id, ip_address, t) ==
    LET i == PeerIndex(ps, hw)
        old == ps[i]
        renamed == IF device_id # old.device_id
                   THEN <<Event("RENAMED", hw, old.device_id, device_id)>>
                   ELSE <<>>
        moved == IF ip_address # old.ip_address /\ device_id = old.device_id
                 THEN <<Event("ADDRESS_CHANGED", hw, old.ip_address, ip_address)>>
                 ELSE <<>>
    IN  [ peers |-> [ps EXCEPT ![i] = [old EXCEPT !.expires_at = t + PEER_EXPIRY,
                                                  !.device_id = device_id,
                                                  !.ip_address = ip_address]],
          events |-> renamed \o moved \o <<Event("ALIVE", hw, device_id, ip_address)>> ]

process_seen_peer(ps, hw, device_id, ip_address, t) ==
    LET i == PeerIndex(ps, hw)
        old == ps[i]
        renamed == IF device_id # old.device_id
                   THEN <<Event("RENAMED", hw, old.device_id, device_id)>>
                   ELSE <<>>
        moved == IF ip_address # old.ip_address
                 THEN <<Event("ADDRESS_CHANGED", hw, old.ip_address, ip_address)>>
                 ELSE <<>>
    IN  [ peers |-> [ps EXCEPT ![i] = [old EXCEPT !.expires_at = t + PEER_EXPIRY,
                                                  !.device_id = device_id,
                                                  !.ip_address = ip_address]],
          events |-> renamed \o moved \o <<Event("ALIVE", hw, device_id, ip_address)>> ]

reap_peers(ps, t) ==
    LET Expired(p) == p.expires_at < t
        Kept(p) == ~Expired(p)
        gone == SelectSeq(ps, Expired)
    IN  [ peers |-> SelectSeq(ps, Kept),
          events |-> [i \in 1 .. Len(gone) |->
                         Event("LEFT", gone[i].hw_address, <<>>, <<>>)] ]

\* _close(): what stop() does to the agent; udp.close and loop.stop are left
\* to the loop as callbacks; periodic_reap_peers is not touched
_close(l) == [l EXCEPT !.ping = FALSE, !.handler = FALSE, !.queued = TRUE]

\* requests.get() in get_mac_address raises (no HTTP server at the address)
ConnError == -2

\* what get_mac_address() comes to: an address, None, or an exception
MacOutcomes == DevHW \cup {PyNone, ConnError}

\* the agent thread runs start(): handler, callbacks, then the loop
AgentStart ==
    /\ agentPc = "init"
    /\ agentPc' = "loop"
    /\ life' = [LifeStarted EXCEPT !.queued = life.queued]
    /\ UNCHANGED <<peers, pipe, sockq, receive_timeout, broadcast, arrived, pings,
                   destination_host, pinged, seen, owner, dec, rtf, xr, now>>
    /\ UNCHANGED authVars

\* periodic callback send_ping(); a broadcast ping comes back to the sender's
\* own socket; a failed send makes the agent call its stop()
send_ping ==
    /\ agentPc = "loop"
    /\ life.ping
    /\ pings < MaxPings
    /\ \/ /\ sockq' = IF broadcast THEN Append(sockq, PING_MESSAGE) ELSE sockq
          /\ pings' = pings + 1
          /\ pinged' = destination_host
          /\ UNCHANGED life
       \/ /\ life' = _close(life)
          /\ UNCHANGED <<sockq, pings, pinged>>
    /\ UNCHANGED <<peers, pipe, agentPc, receive_timeout, broadcast, arrived,
                   destination_host, seen, owner, dec, rtf, xr, now>>
    /\ UNCHANGED authVars

\* the loop runs the callbacks that _close() left: udp.close, then loop.stop;
\* start() returns and the agent thread ends
loop_stop ==
    /\ agentPc = "loop"
    /\ life.queued
    /\ life' = [life EXCEPT !.closed = TRUE, !.queued = FALSE]
    /\ agentPc' = "stopped"
    /\ UNCHANGED <<peers, pipe, sockq, receive_timeout, broadcast, arrived, pings,
                   destination_host, pinged, seen, owner, dec, rtf, xr, now>>
    /\ UNCHANGED authVars

\* the loop calls handle_beacon, or handle_beacon is waiting in recv()
InHandler == (agentPc = "loop" /\ life.handler) \/ agentPc = "recv"

\* handle_beacon() is in UDPClient.recv(): the next datagram is one from an own
\* address, which recv() skips; it goes on waiting for the next one
recv_own ==
    /\ InHandler
    /\ sockq # <<>>
    /\ sockq' = Tail(sockq)
    /\ agentPc' = "recv"
    /\ UNCHANGED <<peers, pipe, receive_timeout, broadcast, arrived, pings,
                   life, destination_host, pinged, seen, owner, dec, rtf, xr, now>>
    /\ UNCHANGED authVars

\* handle_beacon(): UDPClient.recv() returns a datagram of another host; data
\* is what it holds, hw what get_mac_address() comes to for the decoded address
handle_beacon_from(datagrams) ==
    /\ InHandler
    /\ arrived < MaxDatagrams
    /\ arrived' = arrived + 1
    /\ agentPc' = "loop"
    /\ \E data \in datagrams :
         LET r == decode_discovery_response(data) IN
                   IF data = PING_MESSAGE \/ ~r.ok
                   THEN /\ UNCHANGED <<peers, pipe>>
                        /\ seen' = [data |-> data, hw |-> PyNone]
                   ELSE \E hw \in MacOutcomes :
                          LET out ==
                                IF hw = ConnError
                                THEN [ peers |-> peers, events |-> <<>> ]
                                ELSE IF hw = PyNone
                                THEN [ peers |-> peers,
                                       events |-> <<Event("ERROR", PyNone,
                                                          r.device_id, r.ip_address)>> ]
                                ELSE IF InPeers(peers, hw)
                                THEN process_seen_peer(peers, hw, r.device_id,
                                                       r.ip_address, now)
                                ELSE process_new_peer(peers, hw, r.device_id,
                                                      r.ip_address, now)
                          IN  /\ peers' = out.peers
                              /\ pipe' = pipe \o out.events
                              /\ seen' = [data |-> data, hw |-> hw]
    /\ UNCHANGED <<sockq, receive_timeout, broadcast, pings,
                   life, destination_host, pinged, owner, dec, rtf, xr, now>>
    /\ UNCHANGED authVars

handle_beacon == handle_beacon_from(Payloads)

\* recv() inside handle_beacon: the socket timeout passes with no datagram
recv_timeout ==
    /\ agentPc = "recv"
    /\ sockq = <<>>
    /\ Truthy(receive_timeout)
    /\ pipe' = Append(pipe, Event("RECEIVE_TIMEOUT", PyNone, <<>>, <<>>))
    /\ agentPc' = "loop"
    /\ UNCHANGED <<peers, sockq, receive_timeout, broadcast, arrived, pings,
                   life, destination_host, pinged, seen, owner, dec, rtf, xr, now>>
    /\ UNCHANGED authVars

\* periodic callback reap_peers()
ReapPeers ==
    /\ agentPc = "loop"
    /\ life.reap
    /\ LET out == reap_peers(peers, now)
       IN  /\ peers' = out.peers
           /\ pipe' = pipe \o out.events
    /\ UNCHANGED <<sockq, agentPc, receive_timeout, broadcast, arrived, pings,
                   life, destination_host, pinged, seen, owner, dec, rtf, xr, now>>
    /\ UNCHANGED authVars

DiscTick ==
    /\ now < MaxDiscTime
    /\ now' = now + 1
    /\ UNCHANGED discVars
    /\ UNCHANGED authVars

\* an InterfaceAgent(ctx, pipe, destination_host=..., receive_timeout=...) whose
\* thread has run start() up to the loop
AgentInit(udp) ==
    /\ AuthInit({})
    /\ hw_address = PyNone
    /\ auto_refresh_token = TRUE
    /\ peers = <<>>
    /\ pipe = <<>>
    /\ sockq = <<>>
    /\ receive_timeout = udp.receive_timeout
    /\ broadcast = udp.broadcast
    /\ destination_host = udp.destination_host
    /\ arrived = 0
    /\ pings = 0
    /\ pinged = NoHost
    /\ seen = SeenInit
    /\ dec = DecInit
    /\ rtf = RtInit
    /\ xr = XorInit

InitDisc ==
    /\ \E host \in Hosts \cup {NoHost}, timeout \in {PyNone, 1} :
         AgentInit(InterfaceAgent(PyNone, host, timeout))
    /\ now = 0
    /\ agentPc = "loop"
    /\ life = LifeStarted
    /\ owner = OwnerInit

NextDisc ==
    \/ send_ping
    \/ loop_stop
    \/ recv_own
    \/ handle_beacon
    \/ recv_timeout
    \/ ReapPeers
    \/ DiscTick

SpecDisc == InitDisc /\ [][NextDisc]_vars

\* An agent that pings one host, with no receive timeout, among devices that
\* change their id and their address: 192.168.1.171 as A, then as B, and B at
\* 192.168.1.172
SeenBeacons == {Beacon(171, <<65>>), Beacon(171, <<66>>), Beacon(172, <<66>>)}

InitSeen ==
    /\ \E host \in Hosts : AgentInit(InterfaceAgent(PyNone, host, PyNone))
    /\ now = 0
    /\ agentPc = "loop"
    /\ life = LifeStarted
    /\ owner = OwnerInit

NextSeen ==
    \/ send_ping
    \/ loop_stop
    \/ handle_beacon_from(SeenBeacons)
    \/ ReapPeers
    \/ DiscTick

SpecSeen == InitSeen /\ [][NextSeen]_vars

\* The loop calls a handler that is ready, a callback that is queued and a
\* periodic callback that is due; a socket timeout that is set passes; time
\* goes on.
SpecDiscFair ==
    /\ SpecDisc
    /\ WF_vars(recv_own)
    /\ WF_vars(recv_timeout)
    /\ WF_vars(loop_stop)
    /\ WF_vars(ReapPeers)
    /\ WF_vars(DiscTick)

----------------------------------------------------------------------------
(* xled.discover: DiscoveryInterface and xdiscover *)

\* what the owner's actions leave alone in the agent
agentVars == <<peers, pipe, sockq, agentPc, receive_timeout, broadcast, arrived, pings,
               destination_host, pinged, seen, dec, rtf, xr>>

\* bytes.decode("utf-8"): the code points of ASCII bytes; ok = FALSE:
\* UnicodeDecodeError (multi-byte sequences are not modelled)
decode_utf8(bs) ==
    IF \A i \in 1 .. Len(bs) : bs[i] < 128
    THEN [ok |-> TRUE, str |-> bs]
    ELSE [ok |-> FALSE, str |-> <<>>]

\* "find_id is None or find_id == device_id"
MatchesMutant(find_id, device_id) == TRUE

Matches(find_id, device_id) == find_id = NoId \/ find_id = device_id

\* "timeout and (monotonic() - start) > timeout"
TimedOut(o, t) == Truthy(o.timeout) /\ (t - o.start) > o.timeout

\* the exception leaves the with block: __exit__ calls stop()
Leave(o, outcome) == [o EXCEPT !.pc = "stop", !.pending = outcome]

\* xdiscover after the branch of an event: raise DiscoverTimeout or recv again
CheckTimeout(o, t) ==
    IF TimedOut(o, t) THEN Leave(o, "DiscoverTimeout") ELSE [o EXCEPT !.pc = "recv"]

\* xdiscover: interface.recv() returns the next event of the pipe; the loop
\* body up to the next recv(), yield or exception
xd_event ==
    /\ owner.pc = "recv"
    /\ owner.rd < Len(pipe)
    /\ LET e == pipe[owner.rd + 1]
           o == [owner EXCEPT !.rd = @ + 1]
           id == decode_utf8(e.a)
       IN  owner' =
             CASE e.ev = "JOINED" ->
                    IF ~id.ok THEN Leave(o, "UnicodeDecodeError")
                    ELSE IF Matches(o.find_id, id.str)
                    THEN [o EXCEPT !.pc = "yield",
                                   !.yielded = Append(@, <<e.hw, id.str, e.b>>)]
                    ELSE CheckTimeout(o, now)
               [] e.ev = "ERROR" -> Leave(o, "Exception")
               [] e.ev = "RECEIVE_TIMEOUT" ->
                    IF ~Truthy(o.timeout) THEN Leave(o, "AssertionError")
                    ELSE IF (now - o.start) > o.timeout
                    THEN Leave(o, "DiscoverTimeout")
                    ELSE [o EXCEPT !.pc = "recv"]
               [] e.ev = "ALIVE" -> CheckTimeout(o, now)
               [] OTHER -> Leave(o, "Exception")
    /\ UNCHANGED <<agentVars, life, now>>
    /\ UNCHANGED authVars

\* the consumer asks for the next device: xdiscover goes on after its yield
xd_resume ==
    /\ owner.pc = "yield"
    /\ owner' = IF owner.find_id = owner.yielded[Len(owner.yielded)][2]
                THEN Leave(owner, "return")
                ELSE CheckTimeout(owner, now)
    /\ UNCHANGED <<agentVars, life, now>>
    /\ UNCHANGED authVars

\* the consumer drops the generator, as discover() does after the first
\* device: GeneratorExit at the yield
xd_close ==
    /\ owner.pc = "yield"
    /\ owner' = Leave(owner, "GeneratorExit")
    /\ UNCHANGED <<agentVars, life, now>>
    /\ UNCHANGED authVars

\* the owner calls DiscoveryInterface.stop()
stop_call ==
    /\ owner.pc = "idle"
    /\ owner.stops < MaxStops
    /\ owner' = Leave(owner, "")
    /\ UNCHANGED <<agentVars, life, now>>
    /\ UNCHANGED authVars

\* how stop() ends: an xdiscover call ends with what left its with block, or
\* with the exception of stop(); a direct call returns to the owner
Ended(o, exc) ==
    IF o.direct
    THEN [o EXCEPT !.pc = "idle", !.result = IF exc = "" THEN "returned" ELSE exc,
                   !.stops = @ + 1]
    ELSE [o EXCEPT !.pc = "done", !.result = IF exc = "" THEN o.pending ELSE exc,
                   !.stops = @ + 1]

\* stop(): self.agent.stop() runs _close() in the owner's thread; before the
\* agent thread has run start() there is no self.periodic_ping
stop_agent ==
    /\ owner.pc = "stop"
    /\ IF life.started
       THEN /\ life' = _close(life)
            /\ owner' = [owner EXCEPT !.pc = "join"]
       ELSE /\ owner' = Ended(owner, "AttributeError")
            /\ UNCHANGED life
    /\ UNCHANGED <<agentVars, now>>
    /\ UNCHANGED authVars

\* stop(): agent_thread.join() returns when the agent thread has ended; then
\* both ends of the pipe are closed and the context is terminated
stop_join ==
    /\ owner.pc = "join"
    /\ agentPc = "stopped"
    /\ owner' = Ended(owner, "")
    /\ UNCHANGED <<agentVars, life, now>>
    /\ UNCHANGED authVars

\* the ids a caller may look for
FindIds == {NoId, <<66>>}

\* xdiscover(find_id, destination_host, timeout) has entered its with block:
\* the DiscoveryInterface is constructed, the agent thread is started
InitXd ==
    /\ \E find_id \in FindIds, host \in Hosts \cup {NoHost}, timeout \in {PyNone, 2} :
         /\ ~(find_id # NoId /\ host # NoHost)
         /\ AgentInit(DiscoveryInterface(host,
                IF Truthy(timeout) THEN timeout \div 2 ELSE PyNone))
         /\ owner = [OwnerInit EXCEPT !.pc = "recv", !.find_id = find_id,
                                      !.timeout = timeout, !.host = host,
                                      !.start = 0]
    /\ now = 0
    /\ agentPc = "init"
    /\ life = LifeInit

\* the agent thread, the clock standing still
NextAgentNow ==
    \/ AgentStart
    \/ send_ping
    \/ loop_stop
    \/ recv_own
    \/ handle_beacon
    \/ recv_timeout
    \/ ReapPeers

NextAgent ==
    \/ NextAgentNow
    \/ DiscTick

NextXd ==
    \/ NextAgent
    \/ xd_event
    \/ xd_resume
    \/ xd_close
    \/ stop_agent
    \/ stop_join

SpecXd == InitXd /\ [][NextXd]_vars

\* Both threads run; the loop calls what is ready or due; time goes on. The
\* consumer need not ask for a next device, and no datagram need arrive.
SpecXdFair ==
    /\ SpecXd
    /\ WF_vars(AgentStart)
    /\ WF_vars(send_ping)
    /\ WF_vars(recv_own)
    /\ WF_vars(recv_timeout)
    /\ WF_vars(loop_stop)
    /\ WF_vars(ReapPeers)
    /\ WF_vars(DiscTick)
    /\ WF_vars(xd_event)
    /\ WF_vars(stop_agent)
    /\ WF_vars(stop_join)

\* the xdiscover calls that end within one tick of the clock: no peer expires
\* and no timeout passes
NextXdYield ==
    \/ NextAgentNow
    \/ xd_event
    \/ xd_resume
    \/ xd_close
    \/ stop_agent
    \/ stop_join

SpecXdYield == InitXd /\ [][NextXdYield]_vars

\* DiscoveryInterface(destination_host, receive_timeout) has returned to its
\* owner, who calls stop() when it likes
InitIface ==
    /\ \E host \in Hosts \cup {NoHost}, timeout \in {PyNone, 1} :
         /\ AgentInit(DiscoveryInterface(host, timeout))
         /\ owner = [OwnerInit EXCEPT !.pc = "idle", !.direct = TRUE, !.host = host]
    /\ now = 0
    /\ agentPc = "init"
    /\ life = LifeInit

NextIface ==
    \/ NextAgent
    \/ stop_call
    \/ stop_agent
    \/ stop_join

SpecIface == InitIface /\ [][NextIface]_vars

\* Both threads run: the agent thread starts, the loop calls what is ready or
\* due, a socket timeout that is set passes, time goes on, and the owner's
\* stop() goes on when it can. No datagram need arrive, and the owner need not
\* call stop().
SpecIfaceFair ==
    /\ SpecIface
    /\ WF_vars(AgentStart)
    /\ WF_vars(send_ping)
    /\ WF_vars(recv_own)
    /\ WF_vars(recv_timeout)
    /\ WF_vars(loop_stop)
    /\ WF_vars(ReapPeers)
    /\ WF_vars(DiscTick)
    /\ WF_vars(stop_agent)
    /\ WF_vars(stop_join)

----------------------------------------------------------------------------
(* xled.control: set_rt_frame_socket *)

\* longest frame handed to set_rt_frame_socket: one byte more than 256 full
\* packets
MaxFrame == 230401

packet_size == 900

\* "=" of base64
B64Pad == 61

\* the value of a base64 character: A-Z, a-z, 0-9, "+", "/"
B64Index(c) ==
    IF c \in 65 .. 90 THEN c - 65
    ELSE IF c \in 97 .. 122 THEN c - 71
    ELSE IF c \in 48 .. 57 THEN c + 4
    ELSE IF c = 43 THEN 62
    ELSE 63

\* the three bytes of four base64 characters, fewer when the group is padded
B64Group(g) ==
    LET v == B64Index(g[1]) * 262144 + B64Index(g[2]) * 4096
             + (IF g[3] = B64Pad THEN 0 ELSE B64Index(g[3]) * 64)
             + (IF g[4] = B64Pad THEN 0 ELSE B64Index(g[4]))
        three == <<v \div 65536, (v \div 256) % 256, v % 256>>
    IN  IF g[3] = B64Pad THEN SubSeq(three, 1, 1)
        ELSE IF g[4] = B64Pad THEN SubSeq(three, 1, 2)
        ELSE three

RECURSIVE b64decode(_)
\* base64.b64decode of a padded string of base64 characters
b64decode(str) ==
    IF str = <<>> THEN <<>>
    ELSE B64Group(SubSeq(str, 1, 4)) \o b64decode(SubSeq(str, 5, Len(str)))

\* struct.pack(">B", x): ok = FALSE is struct.error
pack_B(x) ==
    IF x \in 0 .. 255 THEN [ok |-> TRUE, bytes |-> <<x>>]
    ELSE [ok |-> FALSE, bytes |-> <<>>]

\* a datagram handed to self.udpclient.send: packet is head followed by the
\* len bytes of the frame from offset off on
Packet(head, off, len) == [head |-> head, off |-> off, len |-> len]

\* frame.read(size) at position pos of a frame of n bytes: how many bytes
read(n, pos, size) == IF n - pos < size THEN n - pos ELSE size

\* the most bytes socket.sendto takes for one datagram of an AF_INET socket
UDP_MAX == 65507

\* UDPClient.send(packet) after the datagrams in sent: sendto raises OSError
\* (message too long) for a packet above UDP_MAX
send(sent, packet) ==
    IF Len(packet.head) + packet.len > UDP_MAX
    THEN [sent |-> sent, result |-> "OSError"]
    ELSE [sent |-> Append(sent, packet), result |-> "None"]

\* version 1 or 2 that takes no more than one packet size of the frame
rt_singleMutant(head, n) == Packet(head, 0, read(n, 0, packet_size))

\* versions 1 and 2: frame.read() gives the whole frame, one packet
rt_single(head, n) == Packet(head, 0, n)

\* version 3 that numbers every datagram 0
rt_multiMutant(token, seq, pos, data_packet) ==
    Packet(<<3>> \o token \o <<0, 0>> \o <<0>>, pos, data_packet)

\* version 3: the datagram of the data_packet read at pos, numbered seq
rt_multi(token, seq, pos, data_packet) ==
    Packet(<<3>> \o token \o <<0, 0>> \o seq, pos, data_packet)

\* the access tokens of the session, as login hands them out: base64 with no,
\* one and two padding characters
AccessTokens ==
    { <<77, 67, 73, 71, 66, 70, 49, 113, 74, 108, 103, 61>>,
      <<81, 85, 74, 68>>,
      <<47, 47, 52, 61>>,
      <<81, 81, 61, 61>> }

\* frame lengths around the multiples of the packet size and around the
\* longest datagram
FrameLens ==
    { n \in 0 .. MaxFrame :
        n % packet_size \in {0, 1, packet_size - 1} /\ (n < 4000 \/ n > 220000) }
    \cup (UDP_MAX - 12 .. UDP_MAX)

\* the leds_number arguments: not given, a count that fits a byte, one that
\* does not
LedsNumbers == {PyNone, 250, 255, 256}

\* a caller with a session that holds a token is about to call
\* set_rt_frame_socket(frame, version, leds_number)
InitRt ==
    /\ AuthInit({})
    /\ hw_address = PyNone
    /\ auto_refresh_token = TRUE
    /\ NoInterface
    /\ dec = DecInit
    /\ xr = XorInit
    /\ now = 0
    /\ \E n \in FrameLens, v \in 1 .. 3, l \in LedsNumbers, t \in AccessTokens :
         rtf = [RtInit EXCEPT !.pc = "call", !.frame = n, !.version = v,
                              !.leds_number = l, !.access_token = t]

\* set_rt_frame_socket(frame, version, leds_number) up to its return for
\* versions 1 and 2, up to the first test of the while loop for version 3
rt_call ==
    /\ rtf.pc = "call"
    /\ LET token == b64decode(rtf.access_token)
           leds == pack_B(rtf.leds_number)
       IN  rtf' =
             IF rtf.version = 1
             THEN IF leds.ok
                  THEN LET out == send(<<>>, rt_single(<<1>> \o token \o leds.bytes,
                                                       rtf.frame))
                       IN  [rtf EXCEPT !.pc = "done", !.result = out.result,
                                       !.sent = out.sent]
                  ELSE [rtf EXCEPT !.pc = "done", !.result = "struct.error"]
             ELSE IF rtf.version = 2
             THEN LET out == send(<<>>, rt_single(<<2>> \o token \o <<0>>, rtf.frame))
                  IN  [rtf EXCEPT !.pc = "done", !.result = out.result,
                                  !.sent = out.sent]
             ELSE [rtf EXCEPT !.pc = "while", !.i = 0,
                       !.data_packet = read(rtf.frame, 0, packet_size),
                       !.pos = read(rtf.frame, 0, packet_size)]
    /\ UNCHANGED <<peers, pipe, sockq, agentPc, receive_timeout, broadcast, arrived,
                   pings, life, destination_host, pinged, seen, owner, dec, xr, now>>
    /\ UNCHANGED authVars

\* version 3: the test of the while loop and one turn of it
rt_while ==
    /\ rtf.pc = "while"
    /\ LET seq == pack_B(rtf.i)
           next == read(rtf.frame, rtf.pos, packet_size)
       IN  rtf' =
             IF rtf.data_packet = 0
             THEN [rtf EXCEPT !.pc = "done", !.result = "None"]
             ELSE IF ~seq.ok
             THEN [rtf EXCEPT !.pc = "done", !.result = "struct.error"]
             ELSE LET out == send(rtf.sent,
                                  rt_multi(b64decode(rtf.access_token), seq.bytes,
                                           rtf.pos - rtf.data_packet, rtf.data_packet))
                  IN  IF out.result # "None"
                      THEN [rtf EXCEPT !.pc = "done", !.result = out.result]
                      ELSE [rtf EXCEPT !.sent = out.sent,
                                       !.data_packet = next,
                                       !.pos = @ + next,
                                       !.i = @ + 1]
    /\ UNCHANGED <<peers, pipe, sockq, agentPc, receive_timeout, broadcast, arrived,
                   pings, life, destination_host, pinged, seen, owner, dec, xr, now>>
    /\ UNCHANGED authVars

NextRt ==
    \/ rt_call
    \/ rt_while

SpecRt == InitRt /\ [][NextRt]_vars

----------------------------------------------------------------------------
(* xled.security: xor_strings *)

\* None where bytes are expected
NoBytes == <<PyNone>>

RECURSIVE xor(_, _, _)
\* m_char ^ k_char on the lowest n bits
xor(a, b, n) ==
    IF n = 0 THEN 0
    ELSE ((a + b) % 2) + 2 * xor(a \div 2, b \div 2, n - 1)

\* how many pairs zip(message, itertools.cycle(key)) gives: cycle of an empty
\* key gives nothing
zip_len(message, key) == IF key = <<>> THEN 0 ELSE Len(message)

\* xor_strings whose key is not repeated
xor_stringsMutant(message, key) ==
    IF message = NoBytes \/ key = NoBytes
    THEN [result |-> "TypeError", ciphered |-> <<>>]
    ELSE [ result |-> "bytes",
           ciphered |-> [i \in 1 .. (IF Len(key) < Len(message) THEN Len(key)
                                     ELSE Len(message)) |->
                           xor(message[i], key[i], 8)] ]

\* xor_strings(message, key): iterating over None raises TypeError
xor_strings(message, key) ==
    IF message = NoBytes \/ key = NoBytes
    THEN [result |-> "TypeError", ciphered |-> <<>>]
    ELSE [ result |-> "bytes",
           ciphered |-> [i \in 1 .. zip_len(message, key) |->
                           xor(message[i], key[((i - 1) % Len(key)) + 1], 8)] ]

\* the bytes messages and keys are made of
XorBytes == {0, 1, 92, 255}

\* None and the byte sequences of up to MaxMsg bytes
XorArgs == {NoBytes} \cup UNION { [1 .. n -> XorBytes] : n \in 0 .. MaxMsg }

\* a caller is about to call xor_strings(message, key)
InitXor ==
    /\ AuthInit({})
    /\ hw_address = PyNone
    /\ auto_refresh_token = TRUE
    /\ NoInterface
    /\ dec = DecInit
    /\ rtf = RtInit
    /\ now = 0
    /\ \E m \in XorArgs, k \in XorArgs :
         xr = [XorInit EXCEPT !.message = m, !.key = k]

\* cipher = xor_strings(message, key), and after it xor_strings(cipher, key)
xor_call ==
    /\ xr.calls < 2
    /\ xr.result # "TypeError"
    /\ LET out == xor_strings(IF xr.calls = 0 THEN xr.message ELSE xr.ciphered, xr.key)
       IN  xr' = IF xr.calls = 0
                 THEN [xr EXCEPT !.calls = 1, !.result = out.result,
                                 !.ciphered = out.ciphered]
                 ELSE [xr EXCEPT !.calls = 2, !.result = out.result,
                                 !.again = out.ciphered]
    /\ UNCHANGED <<peers, pipe, sockq, agentPc, receive_timeout, broadcast, arrived,
                   pings, life, destination_host, pinged, seen, owner, dec, rtf, now>>
    /\ UNCHANGED authVars

SpecXor == InitXor /\ [][xor_call]_vars

----------------------------------------------------------------------------
(* Claims about the discovery agent *)

\* the events about hardware address hw, oldest first
About(hw) ==
    LET Is(e) == e.hw = hw IN SelectSeq(pipe, Is)

\* s[i..] is made of (JOINED, then RENAMED / ADDRESS_CHANGED / ALIVE, then
\* LEFT) repeated, when a JOINED is open (joined) or not before s[i]
RECURSIVE JoinLeavePattern(_, _, _)
JoinLeavePattern(s, i, joined) ==
    IF i > Len(s) THEN TRUE
    ELSE CASE s[i].ev = "JOINED" -> ~joined /\ JoinLeavePattern(s, i + 1, TRUE)
           [] s[i].ev = "LEFT" -> joined /\ JoinLeavePattern(s, i + 1, FALSE)
           [] s[i].ev \in {"RENAMED", "ADDRESS_CHANGED", "ALIVE"} ->
                 joined /\ JoinLeavePattern(s, i + 1, TRUE)
           [] OTHER -> FALSE

\* C9: the events about a hardware address are (JOINED, then RENAMED /
\* ADDRESS_CHANGED / ALIVE, then LEFT) repeated, and the address is in the peer
\* table exactly when its last event is not LEFT: a beacon from an address
\* that is not in the table adds it with one JOINED, one from an address in the
\* table emits no JOINED, and two JOINED are separated by a LEFT.
C9_JoinedOncePerPresence ==
    \A hw \in DevHW :
        LET s == About(hw) IN
        /\ JoinLeavePattern(s, 1, FALSE)
        /\ InPeers(peers, hw) <=> (Len(s) > 0 /\ s[Len(s)].ev # "LEFT")
        /\ Cardinality({i \in 1 .. Len(peers) : peers[i].hw_address = hw}) <= 1

C9_Witness ==
    \E hw \in DevHW :
        LET s == About(hw) IN
        /\ Len(s) >= 3
        /\ s[1].ev = "JOINED"
        /\ \E i \in 2 .. Len(s) - 1 : s[i].ev = "LEFT" /\ s[i + 1].ev = "JOINED"

\* C10: while the agent runs, a peer whose expiry has passed is eventually
\* removed (unless a beacon refreshes it first), also when no further datagram
\* arrives; its removal writes one LEFT; and a peer is removed only when its
\* last beacon is more than PEER_EXPIRY old.
C10_ExpiredPeerIsReaped ==
    /\ \A hw \in DevHW :
          (/\ agentPc # "stopped"
           /\ InPeers(peers, hw)
           /\ peers[PeerIndex(peers, hw)].expires_at < now)
             ~> (\/ agentPc = "stopped"
                 \/ ~InPeers(peers, hw)
                 \/ peers[PeerIndex(peers, hw)].expires_at >= now)
    /\ [][\A hw \in DevHW :
            (InPeers(peers, hw) /\ ~InPeers(peers', hw)) =>
                /\ peers[PeerIndex(peers, hw)].expires_at < now
                /\ Len(About(hw)') = Len(About(hw)) + 1
                /\ About(hw)'[Len(About(hw)')].ev = "LEFT"]_vars

----------------------------------------------------------------------------
(* Claims about DiscoveryInterface and xdiscover *)

\* the (hw_address, device_id, ip_address) tuples of the JOINED events among
\* the first n events of the pipe, in their order
JoinedTuples(n) ==
    LET js == SelectSeq(SubSeq(pipe, 1, n), LAMBDA e : e.ev = "JOINED")
    IN  [i \in 1 .. Len(js) |-> <<js[i].hw, js[i].a, js[i].b>>]

\* C18: xdiscover with a find_id yields only the device of that id, at most
\* once, and ends right after it (the event it read last is that device's
\* JOINED, and the generator returns or is closed); without a find_id it has
\* yielded one tuple for every JOINED event it has read, in their order.
C18_YieldsWhatMatches ==
    owner.pc \in {"recv", "yield", "stop", "join", "done"} /\ ~owner.direct =>
      IF owner.find_id # NoId
      THEN /\ Len(owner.yielded) <= 1
           /\ \A i \in 1 .. Len(owner.yielded) :
                /\ owner.yielded[i][2] = owner.find_id
                /\ owner.yielded[i] = JoinedTuples(owner.rd)[Len(JoinedTuples(owner.rd))]
                /\ pipe[owner.rd].ev = "JOINED"
                /\ owner.pc # "recv"
                /\ owner.pc # "yield" => owner.pending \in {"return", "GeneratorExit"}
      ELSE owner.yielded = JoinedTuples(owner.rd)

\* a caller looking for one device was handed it after another device's JOINED,
\* asked for more and xdiscover returned
C18_Witness ==
    /\ owner.find_id = <<66>>
    /\ owner.rd >= 2
    /\ Len(owner.yielded) = 1
    /\ owner.pc = "done"
    /\ owner.result = "return"

\* a caller with no find_id was handed two devices
C18_WitnessAll ==
    /\ owner.find_id = NoId
    /\ ~owner.direct
    /\ Len(owner.yielded) = 2

\* the bound on pings is used up while the periodic ping is still running: the
\* code would go on pinging
PingsCutShort == life.ping /\ pings >= MaxPings

\* C11: an xdiscover call with a timeout that has yielded no device eventually
\* ends by raising DiscoverTimeout with the agent stopped.
C11_TimeoutEndsDiscovery ==
    (owner.pc = "recv" /\ Truthy(owner.timeout) /\ owner.yielded = <<>>)
      ~> \/ /\ owner.pc = "done"
            /\ owner.result = "DiscoverTimeout"
            /\ agentPc = "stopped"
         \/ owner.yielded # <<>>
         \/ PingsCutShort

\* how an xdiscover call may end without failing: it returns after its match,
\* or its consumer closes it
XdEndings == {"", "return", "GeneratorExit"}

\* C12: an xdiscover call fails only with DiscoverTimeout, raised only after
\* the timeout has elapsed; in particular not with another error after an
\* ERROR event.
C12_FailsOnlyWithTimeout ==
    ~owner.direct =>
      /\ owner.pending \in XdEndings \cup {"DiscoverTimeout"}
      /\ owner.result \in XdEndings \cup {"DiscoverTimeout"}
      /\ owner.pending = "DiscoverTimeout" =>
           Truthy(owner.timeout) /\ now - owner.start > owner.timeout

\* both periodic callbacks cancelled, the handler deregistered, the socket
\* closed, the loop and the agent thread ended
TornDown ==
    /\ ~life.ping
    /\ ~life.reap
    /\ ~life.handler
    /\ life.closed
    /\ ~life.queued
    /\ agentPc = "stopped"

\* C13: when DiscoveryInterface.stop() has returned, teardown is complete:
\* both periodic callbacks are cancelled, the socket handler is deregistered,
\* the socket is closed, the loop and the agent thread have ended. (The claim
\* says the same of a stop() that raises.)
C13_TeardownComplete ==
    owner.direct /\ owner.pc = "idle" /\ owner.result = "returned" => TornDown

\* C14: every call of DiscoveryInterface.stop() by the owner, at any point
\* after the constructor and any number of times, completes without error.
C14_StopNeverRaises ==
    owner.direct => owner.result \in {"", "returned"}

\* InterfaceAgent.stop() has run: only _close() turns the periodic ping off
StopAccepted == life.started /\ ~life.ping

\* C15: once InterfaceAgent.stop() has run, the agent writes no further event
\* to the pipe.
C15_NoEventAfterStop ==
    [][StopAccepted => pipe' = pipe]_vars

----------------------------------------------------------------------------
(* Claims about datagrams *)

\* at least 7 bytes, "OK" in bytes 4-5 (counted from 0), a zero byte last
WellFormed(data) ==
    /\ Len(data) >= 7
    /\ data[5] = 79
    /\ data[6] = 75
    /\ data[Len(data)] = 0

\* C16: a datagram that fails decoding changes nothing: handle_beacon leaves
\* the peer table and the pipe as they were and the agent goes on running in
\* the state it had, so what it does with later datagrams is what it would
\* have done without this one.
C16_MalformedIsIgnored ==
    [][arrived' = arrived + 1 /\ ~WellFormed(seen'.data) =>
         /\ peers' = peers
         /\ pipe' = pipe
         /\ life' = life
         /\ sockq' = sockq
         /\ agentPc' = "loop"]_vars

\* a malformed datagram has just been handled by an agent that knows a peer
C16_Witness ==
    /\ seen.data \in Malformed
    /\ peers # <<>>
    /\ agentPc = "loop"
    /\ life.handler

\* C17: when a well-formed beacon's hardware address cannot be resolved,
\* handle_beacon writes exactly one ERROR event with the decoded device id and
\* IP address, leaves the peer table alone and the agent goes on running.
C17_UnresolvedIsOneError ==
    [][arrived' = arrived + 1 /\ WellFormed(seen'.data) /\ seen'.hw \notin DevHW =>
         /\ pipe' = Append(pipe,
                Event("ERROR", PyNone,
                      SubSeq(seen'.data, 7, Len(seen'.data) - 1),
                      <<seen'.data[4], seen'.data[3], seen'.data[2], seen'.data[1]>>))
         /\ peers' = peers
         /\ life' = life
         /\ agentPc' = "loop"]_vars

----------------------------------------------------------------------------
(* Claims about the destination of pings *)

\* C19: a discovery started with a destination_host sends its pings to that
\* host, and one started with none sends them to the broadcast address.
C19_PingsGoToDestination ==
    pinged # NoHost =>
      pinged = IF owner.host # NoHost THEN owner.host ELSE DEFAULT_BROADCAST

\* C20: decode_discovery_response accepts a byte sequence exactly when it has
\* at least 7 bytes, "OK" in bytes 4-5 and a zero last byte; what it returns
\* then is the address made of bytes 3, 2, 1, 0 and the id made of the bytes
\* from byte 6 up to the last byte, which is left out (no byte at all for 7
\* bytes); every other sequence raises.
C20_DecodesExactlyWellFormed ==
    dec.done =>
      /\ dec.ok <=> WellFormed(dec.data)
      /\ dec.ok =>
           /\ dec.ip_address = <<dec.data[4], dec.data[3], dec.data[2], dec.data[1]>>
           /\ Len(dec.device_id) = Len(dec.data) - 7
           /\ \A i \in 1 .. Len(dec.device_id) : dec.device_id[i] = dec.data[6 + i]

\* a 7-byte datagram was accepted, with the empty id
C20_Witness ==
    /\ dec.done
    /\ dec.ok
    /\ Len(dec.data) = 7
    /\ dec.device_id = <<>>

\* a datagram of the longest kind was refused for its last byte
C20_WitnessRefused ==
    /\ dec.done
    /\ ~dec.ok
    /\ Len(dec.data) = MaxLen
    /\ SubSeq(dec.data, 5, 6) = <<79, 75>>

----------------------------------------------------------------------------
(* Claims about realtime frames *)

\* the base64 character of a value 0 .. 63
B64Char(v) ==
    IF v < 26 THEN 65 + v
    ELSE IF v < 52 THEN 97 + (v - 26)
    ELSE IF v < 62 THEN 48 + (v - 52)
    ELSE IF v = 62 THEN 43
    ELSE 47

RECURSIVE b64encode(_)
\* the padded base64 string of a byte sequence
b64encode(bs) ==
    IF bs = <<>> THEN <<>>
    ELSE IF Len(bs) = 1
    THEN <<B64Char(bs[1] \div 4), B64Char((bs[1] % 4) * 16), B64Pad, B64Pad>>
    ELSE IF Len(bs) = 2
    THEN <<B64Char(bs[1] \div 4), B64Char((bs[1] % 4) * 16 + bs[2] \div 16),
           B64Char((bs[2] % 16) * 4), B64Pad>>
    ELSE <<B64Char(bs[1] \div 4), B64Char((bs[1] % 4) * 16 + bs[2] \div 16),
           B64Char((bs[2] % 16) * 4 + bs[3] \div 64), B64Char(bs[3] % 64)>>
         \o b64encode(SubSeq(bs, 4, Len(bs)))

\* head is first, then the bytes whose base64 string is the session's token,
\* then rest
HeadIs(head, first, rest) ==
    /\ Len(head) > 1 + Len(rest)
    /\ head[1] = first
    /\ b64encode(SubSeq(head, 2, Len(head) - Len(rest))) = rtf.access_token
    /\ SubSeq(head, Len(head) - Len(rest) + 1, Len(head)) = rest

\* the datagrams sent are what version 3 promises for the whole frame
SentInPackets ==
    /\ Len(rtf.sent) = (rtf.frame + 899) \div 900
    /\ \A j \in 1 .. Len(rtf.sent) :
         /\ rtf.sent[j].len <= 900
         /\ j < Len(rtf.sent) => rtf.sent[j].len = 900
         /\ rtf.sent[j].len > 0
         /\ HeadIs(rtf.sent[j].head, 3, <<0, 0, j - 1>>)
         /\ rtf.sent[j].off = 900 * (j - 1)
         /\ j = Len(rtf.sent) => rtf.sent[j].off + rtf.sent[j].len = rtf.frame

\* C21 as stated: every frame sent with version 3 goes out in ceil(length /
\* 900) datagrams of at most 900 payload bytes, all but the last of exactly
\* 900, datagram i with sequence byte i after 0x03, token, 0x00 0x00, and the
\* payloads in send order make up the frame.
C21_EveryFrameInPackets ==
    rtf.version = 3 /\ rtf.pc = "done" => SentInPackets

\* C21, for the frames one byte can number: a frame of at most 256 * 900 bytes
\* sent with version 3 goes out as C21 says, and set_rt_frame_socket returns.
C21_FramesUpTo256Packets ==
    rtf.version = 3 /\ rtf.pc = "done" /\ rtf.frame <= 256 * 900 =>
      SentInPackets /\ rtf.result = "None"

\* a frame of three full packets and one byte has been sent
C21_Witness ==
    /\ rtf.version = 3
    /\ rtf.pc = "done"
    /\ rtf.frame = 2701
    /\ Len(rtf.sent) = 4
    /\ rtf.sent[4].len = 1

\* exactly one datagram went out: head, then the whole frame
SentWhole(first, rest) ==
    /\ rtf.result = "None"
    /\ Len(rtf.sent) = 1
    /\ HeadIs(rtf.sent[1].head, first, rest)
    /\ rtf.sent[1].off = 0
    /\ rtf.sent[1].len = rtf.frame

\* C22 as stated: version 1 sends exactly one datagram 0x01, decoded token,
\* the byte leds_number, the whole frame; version 2 exactly one datagram 0x02,
\* decoded token, a zero byte, the whole frame; however long the frame is.
C22_OneDatagramWholeFrame ==
    rtf.pc = "done" =>
      /\ rtf.version = 1 /\ rtf.leds_number \in 0 .. 255 =>
           SentWhole(1, <<rtf.leds_number>>)
      /\ rtf.version = 2 => SentWhole(2, <<0>>)

\* the bytes before the frame in a datagram of version 1 or 2: the version,
\* the decoded token, one byte
HeadLen == 1 + Len(b64decode(rtf.access_token)) + 1

\* C22, for the frames that fit a datagram: when header and frame together
\* have at most 65507 bytes, versions 1 and 2 send exactly the one datagram of
\* C22; a longer frame is not split either: nothing is sent and the call
\* raises OSError.
C22_OneDatagramThatFits ==
    rtf.pc = "done" /\ rtf.version \in {1, 2}
        /\ (rtf.version = 1 => rtf.leds_number \in 0 .. 255) =>
      IF HeadLen + rtf.frame <= 65507
      THEN SentWhole(rtf.version, IF rtf.version = 1 THEN <<rtf.leds_number>> ELSE <<0>>)
      ELSE rtf.sent = <<>> /\ rtf.result = "OSError"

\* a frame that just fits went out in one datagram of version 1
C22_Witness ==
    /\ rtf.pc = "done"
    /\ rtf.version = 1
    /\ rtf.leds_number = 250
    /\ HeadLen + rtf.frame = 65507
    /\ Len(rtf.sent) = 1
    /\ rtf.sent[1].len = rtf.frame

\* the same with version 2
C22_WitnessV2 ==
    /\ rtf.pc = "done"
    /\ rtf.version = 2
    /\ rtf.frame > packet_size
    /\ Len(rtf.sent) = 1

----------------------------------------------------------------------------
(* Claims about xor_strings *)

\* bit p of a
Bit(a, p) == (a \div (2 ^ p)) % 2

\* the byte whose bits are those in which a and b differ
Differ(a, b) ==
    LET d(p) == IF Bit(a, p) # Bit(b, p) THEN 2 ^ p ELSE 0
    IN  d(0) + d(1) + d(2) + d(3) + d(4) + d(5) + d(6) + d(7)

\* C23: for a message and a non-empty key, xor_strings(xor_strings(message,
\* key), key) is the message, and xor_strings(message, key) has the length of
\* the message, byte i being message byte i xor key byte i modulo the key's
\* length.
C23_XorIsSelfInverse ==
    xr.message # NoBytes /\ xr.key # NoBytes /\ xr.key # <<>> =>
      /\ xr.calls >= 1 =>
           /\ xr.result = "bytes"
           /\ Len(xr.ciphered) = Len(xr.message)
           /\ \A i \in 1 .. Len(xr.message) :
                xr.ciphered[i] =
                  Differ(xr.message[i], xr.key[((i - 1) % Len(xr.key)) + 1])
      /\ xr.calls = 2 => xr.again = xr.message

\* a message went through a shorter key twice
C23_Witness ==
    /\ xr.calls = 2
    /\ xr.message # NoBytes
    /\ xr.key # NoBytes
    /\ Len(xr.message) = 3
    /\ Len(xr.key) = 2
    /\ xr.key[1] # xr.key[2]
    /\ xr.ciphered # xr.message
    /\ xr.again = xr.message

\* C24: xor_strings raises, and returns nothing, whenever the message is
\* None, the key is None or the key is empty.
C24_InvalidArgumentsRaise ==
    xr.calls = 1 /\ (xr.message = NoBytes \/ xr.key = NoBytes \/ xr.key = <<>>) =>
      xr.result # "bytes"

----------------------------------------------------------------------------
(* Claims about a peer that is seen again *)

\* the events that this step appends to the pipe
Written == SubSeq(pipe', Len(pipe) + 1, Len(pipe'))

\* the positions in the sequence of events s of the events named ev
Places(s, ev) == {k \in 1 .. Len(s) : s[k].ev = ev}

\* handle_beacon handles, in this step, a beacon whose hardware address is in
\* the peer table
SeenAgain ==
    /\ arrived' = arrived + 1
    /\ seen'.hw \in DevHW
    /\ InPeers(peers, seen'.hw)

\* C26: a beacon from a hardware address in the peer table refreshes the
\* peer's expiry and writes, in this order, RENAMED exactly when the decoded
\* id differs from the stored one, ADDRESS_CHANGED exactly when the decoded
\* address differs from the stored one, and then exactly one ALIVE; afterwards
\* the peer holds the decoded id and address under the same hardware address,
\* and the other peers are as they were.
C26_SeenPeerEvents ==
    [][ SeenAgain =>
          LET hw == seen'.hw
              r == decode_discovery_response(seen'.data)
              i == CHOOSE k \in 1 .. Len(peers) : peers[k].hw_address = hw
              w == Written
          IN  /\ Len(peers') = Len(peers)
              /\ \A k \in 1 .. Len(peers) : k # i => peers'[k] = peers[k]
              /\ peers'[i].hw_address = hw
              /\ peers'[i].device_id = r.device_id
              /\ peers'[i].ip_address = r.ip_address
              /\ peers'[i].expires_at = now + PEER_EXPIRY
              /\ \A k \in 1 .. Len(w) :
                     w[k].hw = hw /\ w[k].ev \in {"RENAMED", "ADDRESS_CHANGED", "ALIVE"}
              /\ Places(w, "ALIVE") = {Len(w)}
              /\ w[Len(w)].a = r.device_id /\ w[Len(w)].b = r.ip_address
              /\ Places(w, "RENAMED") =
                     IF r.device_id # peers[i].device_id THEN {1} ELSE {}
              /\ Cardinality(Places(w, "ADDRESS_CHANGED")) =
                     IF r.ip_address # peers[i].ip_address THEN 1 ELSE 0
              /\ \A k \in Places(w, "RENAMED") :
                     w[k].a = peers[i].device_id /\ w[k].b = r.device_id
              /\ \A k \in Places(w, "ADDRESS_CHANGED") :
                     /\ w[k].a = peers[i].ip_address /\ w[k].b = r.ip_address
                     /\ \A j \in Places(w, "RENAMED") : j < k
      ]_vars

\* a peer that has changed its address only, a while after it joined
C26_Witness ==
    /\ Len(pipe) = 3
    /\ pipe[1].ev = "JOINED"
    /\ pipe[2].ev = "ADDRESS_CHANGED" /\ pipe[2].hw = pipe[1].hw
    /\ pipe[3].ev = "ALIVE" /\ pipe[3].a = pipe[1].a /\ pipe[3].b # pipe[1].b
    /\ Len(peers) = 1
    /\ peers[1].ip_address = pipe[3].b
    /\ peers[1].expires_at > PEER_EXPIRY

\* a peer that has changed its id only
C26_WitnessRenamed ==
    /\ Len(pipe) = 3
    /\ pipe[1].ev = "JOINED"
    /\ pipe[2].ev = "RENAMED" /\ pipe[2].hw = pipe[1].hw
    /\ pipe[3].ev = "ALIVE" /\ pipe[3].b = pipe[1].b /\ pipe[3].a # pipe[1].a

\* a peer that has changed both, and one that has changed nothing
C26_WitnessBoth ==
    /\ Len(pipe) = 4
    /\ pipe[1].ev = "JOINED"
    /\ pipe[2].ev = "RENAMED"
    /\ pipe[3].ev = "ADDRESS_CHANGED"
    /\ pipe[4].ev = "ALIVE"

C26_WitnessSame ==
    /\ Len(pipe) = 2
    /\ pipe[1].ev = "JOINED"
    /\ pipe[2] = [pipe[1] EXCEPT !.ev = "ALIVE"]

----------------------------------------------------------------------------
(* Claims about the two threads *)

\* C27: the owner's thread neither reads nor writes the agent's state: a step
\* of the owner's thread, stop() included, leaves the agent's callbacks,
\* handler, socket, loop and peer table as they are; what it asks for is done
\* later by the loop thread.
C27_OwnerLeavesAgentAlone ==
    [][owner' # owner => life' = life /\ peers' = peers]_vars

\* the event that xdiscover has read last
LastRead == pipe[owner.rd]

\* C28: xdiscover accepts every event that the agent writes: reading RENAMED,
\* ADDRESS_CHANGED or LEFT neither ends the call nor makes it raise.
C28_EveryEventAccepted ==
    ( /\ ~owner.direct
      /\ owner.rd > 0
      /\ LastRead.ev \in {"RENAMED", "ADDRESS_CHANGED", "LEFT"} ) =>
        /\ owner.pending # "Exception"
        /\ owner.result # "Exception"

\* the same for a RENAMED alone and for a LEFT alone
C28_RenamedAccepted ==
    (~owner.direct /\ owner.rd > 0 /\ LastRead.ev = "RENAMED")
        => owner.pending # "Exception"

C28_LeftAccepted ==
    (~owner.direct /\ owner.rd > 0 /\ LastRead.ev = "LEFT")
        => owner.pending # "Exception"

\* C30: every call of DiscoveryInterface.stop() eventually returns, also when
\* the agent has no receive timeout and is inside handle_beacon, waiting in
\* UDPClient.recv().
C30_StopReturns ==
    (owner.direct /\ owner.pc \in {"stop", "join"}) ~> owner.pc = "idle"

----------------------------------------------------------------------------
(* Claims about the active token *)

\* caller c gets the answer of its verify request in this step, and the
\* answer is HTTP 200 with code 1000
VerifySucceeds(c) ==
    /\ th[c].pc = "verify"
    /\ th'[c].pc # "verify"
    /\ th'[c].cause = ""

\* C25: the active token is unset or a token whose own handshake's verify
\* succeeded: the active token changes to a token only in the step in which
\* the verify request of the handshake that issued it is answered with
\* success, and every token put into a request header or a realtime datagram
\* is the active token (or, in the second send of a call, the token that was
\* active at its first send and is still in the call's headers).
C25_ActiveTokenIsVerified ==
    [][ /\ ( /\ client.authentication_token' # client.authentication_token
             /\ Truthy(client.authentication_token') ) =>
               \E c \in callers :
                   /\ VerifySucceeds(c)
                   /\ client.authentication_token' = th[c].loginNo
        /\ \A c \in callers :
               Len(th'[c].sent) > Len(th[c].sent) =>
                   LET s == th'[c].sent[Len(th'[c].sent)] IN
                   Truthy(s.hdr) => \/ s.hdr = client.authentication_token'
                                    \/ s.hdr = th[c].headers
        /\ (rt' # rt /\ rt'.sent) => rt'.token = client.authentication_token'
      ]_vars

\* a second handshake was verified and its token went out with the request,
\* after a login whose verify was rejected left the session without token
C25_Witness ==
    \E c \in callers :
        /\ th[c].pc = "done" /\ th[c].result = "200"
        /\ th[c].logins = 1 /\ th[c].verifies = 1
        /\ nLogin = 2
        /\ th[c].loginNo = 2
        /\ client.authentication_token = 2
        /\ th[c].sent[Len(th[c].sent)].hdr = 2

\* a call that ends with the active token it started with ends with the
\* expires_at it started with
FailedHandshakeKeepsExpiry ==
    \A c \in callers :
        ( /\ th[c].pc = "done" /\ Truthy(client.authentication_token)
          /\ client.authentication_token = th[c].tok0 )
            => client.expires_at = th[c].exp0

\* the token of a handshake whose login response announced no expiry is
\* active with no expires_at
NoExpiryAnnouncedNoExpiry ==
    \A c \in callers :
        ( /\ th[c].pc = "done" /\ Truthy(client.authentication_token)
          /\ client.authentication_token = th[c].loginNo
          /\ client._expires_in = PyNone )
            => client.expires_at = PyNone

\* C29: expires_at belongs to the active token: it is the expiry that the
\* login response of the handshake that issued the active token announced, or
\* unset if it announced none, also after a handshake that failed after its
\* login step.
C29_ExpiryBelongsToActiveToken ==
    FailedHandshakeKeepsExpiry /\ NoExpiryAnnouncedNoExpiry

====
